---- MODULE Spec2Model ----
(***************************************************************************)
(* Season model, season filter, PlayerStat aggregator, in-game statistics,  *)
(* deck, roster and game lifecycle of the games app (src/games/models.py,  *)
(* src/games/tasks.py).  Each part has a specification of its own over the *)
(* one list of variables: SpecSeason, SpecFold, SpecStats, SpecDeck,       *)
(* SpecRoster, SpecLife, SpecFinish and, for concurrent updates, Spec.     *)
(*                                                                         *)
(* Time.  A datetime is an integer number of ticks since 2013-01-01 00:00  *)
(* UTC; one tick stands for the resolution of a datetime (one microsecond) *)
(* and a calendar month holds TicksPerMonth ticks.  Negative values are    *)
(* instants before 2013.  Optional values (Python None) are <<>>, a value  *)
(* x that is present is <<x>>.                                             *)
(***************************************************************************)
EXTENDS Integers, Sequences, FiniteSets, TLC

VARIABLES
    today,        \* the month datetime.date.today() lies in, as its first tick
    allTimeEnd,   \* _AllTimeSeason.end_datetime, evaluated once at import
    rows,         \* SpecSeason: end_datetime of the rows of a queryset
    call,         \* SpecSeason, SpecStats, SpecDeck, SpecRoster: the last
                  \* call made and what it returned
    games,        \* the Game table: game id -> row (with its cards and the
                  \* GamePlayer row of the tracked user)
    dbOrder,      \* the order in which the database returns rows whose sort
                  \* keys are equal (left open by SQL), as a sequence of ids
    psSeason,     \* SpecFold: season_number of the PlayerStat object
    ps,           \* SpecFold: the PlayerStat object in memory
    applied,      \* SpecFold: games folded into ps since it was last empty
    prev,         \* SpecFold: ps before the last call; SpecFinish: the
                  \* PlayerStat rows before the last call
    last,         \* SpecFold, SpecFinish: the last call made
    stored,       \* Spec, SpecFinish: the PlayerStat rows of the tracked user in the
                  \* database, season_number -> optional row
    triggered,    \* Spec: games update_on_game_finished was invoked for
    folded,       \* Spec: games whose update_on_game_finished has returned
    wk,           \* Spec: the calls of update_on_game_finished in progress
    rc,           \* Spec: the recalculation in progress
    gameplayers,  \* SpecRoster: the GamePlayer table, a set of rows
    clock,        \* SpecLife: timezone.now(), in hours
    task,         \* SpecLife: the run of mark_dnf_games in progress
    lifelog,      \* SpecLife: what was completed and what was marked
    samples       \* SpecMix: the GamePlayerStat rows of the season, as the
                  \* number of rows per player count

seasonVars == <<rows, call>>
foldVars == <<psSeason, ps, applied, prev, last>>
sysVars == <<stored, triggered, folded, wk, rc>>
lifeVars == <<clock, task, lifelog>>
vars == <<today, allTimeEnd, rows, call, games, dbOrder, psSeason, ps, applied,
          prev, last, stored, triggered, folded, wk, rc, gameplayers, clock,
          task, lifelog, samples>>

\* ------------------------------------------------------------------ bounds
TicksPerMonth == 2      \* ticks in a calendar month
MaxSeason == 3          \* the clock runs through seasons 1..MaxSeason
MaxGames == 2           \* rows of the Game table
NumWorkers == 2         \* processes that can run update_on_game_finished
MaxCards == 3           \* SpecStats: cards drawn so far in the game
MaxSeats == 3           \* SpecStats: players of the game
MaxPlayers == 7         \* SpecDeck: player counts asked for
MaxSeed == 14           \* SpecDeck: seeds asked for
MaxClock == 13          \* SpecLife: hours the clock runs for
MaxSamples == 3         \* SpecMix: GamePlayerStat rows of the season

\* ---------------------------------------------------------------- optionals
None == <<>>
Some(x) == <<x>>
IsNone(o) == o = <<>>
Val(o) == o[1]

\* ---------------------------------------------------------------- calendar
FirstSeasonYear == 2013

\* Game.STANDARD_SIPS_PER_BEER, the default of Game.sips_per_beer
STANDARD_SIPS_PER_BEER == 14

\* DNF_THRESHOLD of mark_dnf_games, in hours
DNF_THRESHOLD == 12

\* datetime(year, month, 1) localized to UTC, as ticks
MkDatetime(year, month) ==
    ((year - FirstSeasonYear) * 12 + (month - 1)) * TicksPerMonth

YearOf(t) == FirstSeasonYear + (t \div (12 * TicksPerMonth))
MonthOf(t) == ((t \div TicksPerMonth) % 12) + 1

\* ------------------------------------------------------------------ Season
\* Season(number).start_datetime
start_datetime(number) ==
    LET extra_half_years == number - 1
        year == FirstSeasonYear + (extra_half_years \div 2)
        month == IF extra_half_years % 2 = 1 THEN 7 ELSE 1
    IN  MkDatetime(year, month)

\* Season(number).end_datetime
end_datetime(number) == start_datetime(number + 1) - 1

\* season_from_date with the second half-year beginning after July
season_from_date_AfterJuly(date) ==
    LET year_diff == YearOf(date) - FirstSeasonYear
        season_number == year_diff * 2 + 1
    IN  IF MonthOf(date) > 7 THEN season_number + 1 ELSE season_number

\* Season.season_from_date(date).number
season_from_date(date) ==
    LET year_diff == YearOf(date) - FirstSeasonYear
        season_number == year_diff * 2 + 1
    IN  IF MonthOf(date) >= 7 THEN season_number + 1 ELSE season_number

\* Season.current_season().number
current_season == season_from_date(today)

\* A season object: Season(number), or the module-level all_time_season.
\* Season.is_valid_season_number for an integer argument
is_valid_season_number(number) == 1 <= number /\ number <= current_season

NumberedSeason(n) == [alltime |-> FALSE, number |-> n]
all_time_season == [alltime |-> TRUE, number |-> 0]

SeasonStart(s) == IF s.alltime THEN start_datetime(1) ELSE start_datetime(s.number)
SeasonEnd(s) == IF s.alltime THEN allTimeEnd ELSE end_datetime(s.number)

\* a == b for two season objects: Season.__eq__ compares the numbers, and
\* _AllTimeSeason, which defines no __eq__, defers to the reflected
\* Season.__eq__ or, against itself, to identity.
SeasonEq(a, b) == a.number = b.number

\* ----------------------------------------------------------- filter_season
\* The Q object with the live rows added without the caller's opt-in
SeasonQ_LiveUnasked(end, season, should_include_live) ==
    LET inRange == /\ ~IsNone(end)
                   /\ Val(end) >= SeasonStart(season)
                   /\ Val(end) <= SeasonEnd(season)
        includes_live == \/ SeasonEq(season, all_time_season)
                         \/ SeasonEq(NumberedSeason(season_from_date(today)), season)
    IN  IF includes_live THEN inRange \/ IsNone(end) ELSE inRange

\* The Q object built by filter_season, evaluated on one row's end_datetime
\* (SQL: a comparison with NULL is not true).
SeasonQ(end, season, should_include_live) ==
    LET inRange == /\ ~IsNone(end)
                   /\ Val(end) >= SeasonStart(season)
                   /\ Val(end) <= SeasonEnd(season)
        includes_live == \/ SeasonEq(season, all_time_season)
                         \/ SeasonEq(NumberedSeason(current_season), season)
    IN  IF includes_live /\ should_include_live
        THEN inRange \/ IsNone(end)
        ELSE inRange

\* filter_season(qs, season, should_include_live): the kept row ids
filter_season(qs, season, should_include_live) ==
    {r \in DOMAIN qs : SeasonQ(qs[r], season, should_include_live)}

\* ------------------------------------------------------------- sequences
RECURSIVE SumSeq(_)
SumSeq(s) == IF s = <<>> THEN 0 ELSE Head(s) + SumSeq(Tail(s))

Range(s) == {s[i] : i \in DOMAIN s}

\* the orderings of a finite set, as sequences
Orderings(S) ==
    {s \in [1 .. Cardinality(S) -> S] : \A i, j \in DOMAIN s : i # j => s[i] # s[j]}

IndexOf(s, x) == CHOOSE i \in DOMAIN s : s[i] = x

\* ------------------------------------------------------------- rationals
\* A float that holds a quotient is kept as the exact fraction <<num, den>>
\* in lowest terms, den > 0.
RECURSIVE Gcd(_, _)
Gcd(a, b) == IF b = 0 THEN a ELSE Gcd(b, a % b)

Rat_Floor(num, den) == <<num \div den, 1>>

Rat(num, den) ==
    LET g == Gcd(num, den)
    IN  IF num = 0 THEN <<0, 1>> ELSE <<num \div g, den \div g>>

\* ------------------------------------------------------ Game, Card, Chug
\* A Game row g: official, dnf, start (optional start_datetime), end
\* (optional end_datetime), n (players.count()), cards (the Card rows in
\* index order, each [value, chug] with chug the optional Chug duration in
\* milliseconds), and of the tracked user's GamePlayer row: pos (position)
\* and gpdnf (dnf).

\* Game.is_completed
is_completed(g) == ~IsNone(g.end)

\* Game.has_ended
has_ended(g) == is_completed(g) \/ g.dnf

\* Game.is_live
is_live(g) == ~is_completed(g) /\ ~g.dnf

\* Game.get_duration() on a game that is not dnf (the only use made of it
\* by update_from_new_game): optional timedelta
get_duration(g) ==
    IF IsNone(g.start) \/ IsNone(g.end) THEN None ELSE Some(Val(g.end) - Val(g.start))

\* Game.get_last_activity_time(): optional datetime
get_last_activity_time(g) ==
    IF ~IsNone(g.end) THEN g.end
    ELSE IF Len(g.cards) > 0 THEN g.cards[Len(g.cards)].drawn
    ELSE g.start

\* Game.get_season(): optional season number
get_season(g) ==
    IF ~has_ended(g) THEN None
    ELSE Some(season_from_date(Val(get_last_activity_time(g))))

\* Game.get_turn_durations(): the durations the generator yields, in order.
\* It stops at the first card without a draw time and yields nothing for a
\* card whose predecessor time (the game start, for the first card) is None.
RECURSIVE TurnLoop(_, _, _, _)
TurnLoop(cards, i, prev_datetime, out) ==
    IF i > Len(cards) THEN out
    ELSE IF IsNone(cards[i].drawn) THEN out
    ELSE TurnLoop(cards, i + 1, cards[i].drawn,
                  IF ~IsNone(prev_datetime)
                  THEN Append(out, Val(cards[i].drawn) - Val(prev_datetime))
                  ELSE out)

get_turn_durations(g) == TurnLoop(g.cards, 1, g.start, <<>>)

\* div_or_none of get_player_stats on optional operands: None when a is
\* None or b is falsy (None or 0), else the quotient a / b
div_or_none_NoneAsZero(a, b) ==
    IF IsNone(b) \/ Val(b) = 0 THEN None
    ELSE Some(Rat(IF IsNone(a) THEN 0 ELSE Val(a), Val(b)))

div_or_none(a, b) ==
    IF IsNone(a) \/ IsNone(b) \/ Val(b) = 0 THEN None
    ELSE Some(Rat(Val(a), Val(b)))

\* The first loop of get_player_stats, over enumerate(ordered_cards()), from
\* card i on (1-based here, i - 1 in the code).  Seats are 0 .. n - 1;
\* last_sip is the optional pair <<seat, value>>.
RECURSIVE SipLoop(_, _, _, _)
SipLoop(cards, n, i, acc) ==
    IF i > Len(cards) THEN acc
    ELSE LET seat == (i - 1) % n
         IN  SipLoop(cards, n, i + 1,
                 [total_sips |-> [acc.total_sips EXCEPT ![seat] = @ + cards[i].value],
                  total_drawn |-> [acc.total_drawn EXCEPT ![seat] = @ + 1],
                  last_sip |-> Some(<<seat, cards[i].value>>)])

\* The second loop of get_player_stats, over enumerate(get_turn_durations())
RECURSIVE TimeLoop(_, _, _, _)
TimeLoop(durations, n, i, acc) ==
    IF i > Len(durations) THEN acc
    ELSE LET seat == (i - 1) % n
         IN  TimeLoop(durations, n, i + 1,
                 [total_times |-> [acc.total_times EXCEPT ![seat] = Some(Val(@) + durations[i])],
                  total_done |-> [acc.total_done EXCEPT ![seat] = Some(Val(@) + 1)]])

\* Game.get_player_stats(): the dictionaries it yields, by seat
get_player_stats(g) ==
    LET n == g.n
        Seats == 0 .. n - 1
        sip == SipLoop(g.cards, n, 1,
                       [total_sips |-> [s \in Seats |-> 0],
                        total_drawn |-> [s \in Seats |-> 0],
                        last_sip |-> None])
        timed == Len(g.cards) > 0 /\ ~IsNone(g.cards[1].drawn)
        tim == IF timed
               THEN TimeLoop(get_turn_durations(g), n, 1,
                             [total_times |-> [s \in Seats |-> Some(0)],
                              total_done |-> [s \in Seats |-> Some(0)]])
               ELSE [total_times |-> [s \in Seats |-> None],
                     total_done |-> [s \in Seats |-> None]]
        time_per_sip(i) ==
            IF IsNone(g.start) THEN None
            ELSE IF /\ ~IsNone(sip.last_sip)
                    /\ Val(sip.last_sip)[1] = i
                    /\ ~is_completed(g)
                 THEN div_or_none(tim.total_times[i],
                                  Some(sip.total_sips[i] - Val(sip.last_sip)[2]))
                 ELSE div_or_none(tim.total_times[i], Some(sip.total_sips[i]))
    IN  [i \in Seats |->
            [total_sips |-> sip.total_sips[i],
             sips_per_turn |-> div_or_none(Some(sip.total_sips[i]), Some(sip.total_drawn[i])),
             full_beers |-> sip.total_sips[i] \div g.sips_per_beer,
             extra_sips |-> sip.total_sips[i] % g.sips_per_beer,
             total_time |-> tim.total_times[i],
             time_per_turn |-> div_or_none(tim.total_times[i], tim.total_done[i]),
             time_per_sip |-> time_per_sip(i)]]

\* Card.save() of a card constructed without drawn_by, as Card.objects.create
\* does: hasattr is false, drawn_by is set to the player at seat
\* index % players.count(), and the next statement looks up
\* self.ordered_gameplayers, which Card does not define, so AttributeError is
\* raised before super().save() and no row is written.
Card_save(g, index) ==
    [drawn_by |-> Some(index % g.n), drawn_by_2 |-> None,
     raised |-> "AttributeError", saved |-> FALSE]

\* -------------------------------------------------------------- the deck
\* Card.VALUES and Card.SUITS, by their first components
CardVALUES == <<2, 3, 4, 5, 6, 7, 8, 9, 10, 11, 12, 13, 14>>
CardSUITS == <<"S", "C", "H", "D", "A", "I">>

\* Game.get_total_card_count() for a game of n players
get_total_card_count(g) == g.n * Len(CardVALUES)

\* Card.get_ordered_cards_for_players(player_count), as the list of the
\* pairs <<value, suit>> it yields; SUITS[:player_count] is at most all of
\* SUITS
get_ordered_cards_for_players_AllSuits(player_count) ==
    [j \in 1 .. Len(CardSUITS) * Len(CardVALUES) |->
        <<CardVALUES[((j - 1) % Len(CardVALUES)) + 1],
          CardSUITS[((j - 1) \div Len(CardVALUES)) + 1]>>]

get_ordered_cards_for_players(player_count) ==
    LET suits == SubSeq(CardSUITS, 1,
                        IF player_count < Len(CardSUITS) THEN player_count
                        ELSE Len(CardSUITS))
    IN  [j \in 1 .. Len(suits) * Len(CardVALUES) |->
            <<CardVALUES[((j - 1) % Len(CardVALUES)) + 1],
              suits[((j - 1) \div Len(CardVALUES)) + 1]>>]

\* shuffle_with_seed(cards, seed) of games/seed.py: a permutation of the
\* list that depends on the seed alone; here the rotation by seed places.
shuffle_with_seed(cards, seed) ==
    [k \in 1 .. Len(cards) |-> cards[((k - 1 + seed) % Len(cards)) + 1]]

\* Card.get_shuffled_deck(player_count, seed)
get_shuffled_deck(player_count, seed) ==
    shuffle_with_seed(get_ordered_cards_for_players(player_count), seed)

\* --------------------------------------------------------------- GamePlayer
\* A GamePlayer row is [game, user, position].  Meta.unique_together holds
\* the single tuple ("game", "user", "position"): an insert is refused when
\* a row with the same three values exists.
UniqueTogether(tbl, row) ==
    \A r \in tbl :
        ~(r.game = row.game /\ r.user = row.user /\ r.position = row.position)

\* game.gameplayer_set.get(user=user): the row found, or the exception
gameplayer_set_get(tbl, game, user) ==
    LET found == {r \in tbl : r.game = game /\ r.user = user}
    IN  IF found = {} THEN [raised |-> "DoesNotExist"]
        ELSE IF Cardinality(found) > 1 THEN [raised |-> "MultipleObjectsReturned"]
        ELSE [raised |-> "", row |-> CHOOSE r \in found : TRUE]

\* -------------------------------------------------------------- PlayerStat
\* The fields of a PlayerStat besides its key (user, season_number).
\* best_game / worst_game hold a game id, fastest_chug a Chug row
\* [game, index, duration]; times are in ticks, chug times in milliseconds.
NewStat ==
    [total_games |-> 0, total_time_played_seconds |-> 0, total_sips |-> 0,
     best_game |-> None, worst_game |-> None,
     best_game_sips |-> None, worst_game_sips |-> None,
     total_chugs |-> 0, fastest_chug |-> None,
     average_chug_time_seconds |-> None]

\* The loop over enumerate(game.ordered_cards()) of update_from_new_game,
\* from card i (1-based here, i - 1 in the code) on.  acc carries game_sips,
\* total_chugs, total_chug_time and fastest_chug.
RECURSIVE CardLoop(_, _, _, _)
CardLoop(gid, g, i, acc) ==
    IF i > Len(g.cards) THEN acc
    ELSE LET c == g.cards[i]
             mine == (i - 1) % g.n = g.pos
             chugged == mine /\ ~IsNone(c.chug)
             faster == \/ IsNone(acc.fastest_chug)
                       \/ Val(c.chug) < Val(acc.fastest_chug).duration
         IN  CardLoop(gid, g, i + 1,
                 [game_sips |-> IF mine THEN acc.game_sips + c.value
                                ELSE acc.game_sips,
                  total_chugs |-> IF chugged THEN acc.total_chugs + 1
                                  ELSE acc.total_chugs,
                  total_chug_time |-> IF chugged
                                      THEN acc.total_chug_time + Val(c.chug)
                                      ELSE acc.total_chug_time,
                  fastest_chug |-> IF chugged /\ faster
                                   THEN Some([game |-> gid, index |-> i - 1,
                                              duration |-> Val(c.chug)])
                                   ELSE acc.fastest_chug])

\* PlayerStat.update_from_new_game(game) after its two early returns
FoldGame(stat, gid, g) ==
    LET duration == get_duration(g)
        avg == stat.average_chug_time_seconds
        \* total_chugs * average_chug_time_seconds, 0 when the average is
        \* None or 0.0; the product of the count and the exact quotient
        total_chug_time == IF ~IsNone(avg) /\ Val(avg)[1] # 0
                           THEN (stat.total_chugs * Val(avg)[1]) \div Val(avg)[2]
                           ELSE 0
        r == CardLoop(gid, g, 1,
                 [game_sips |-> 0, total_chugs |-> stat.total_chugs,
                  total_chug_time |-> total_chug_time,
                  fastest_chug |-> stat.fastest_chug])
        better == IsNone(stat.best_game) \/ r.game_sips > Val(stat.best_game_sips)
        worse == IsNone(stat.worst_game) \/ r.game_sips < Val(stat.worst_game_sips)
    IN  [total_games |-> stat.total_games + 1,
         total_time_played_seconds |->
             IF ~IsNone(duration) /\ Val(duration) # 0
             THEN stat.total_time_played_seconds + Val(duration)
             ELSE stat.total_time_played_seconds,
         total_sips |-> stat.total_sips + r.game_sips,
         best_game |-> IF better THEN Some(gid) ELSE stat.best_game,
         best_game_sips |-> IF better THEN Some(r.game_sips) ELSE stat.best_game_sips,
         worst_game |-> IF worse THEN Some(gid) ELSE stat.worst_game,
         worst_game_sips |-> IF worse THEN Some(r.game_sips) ELSE stat.worst_game_sips,
         total_chugs |-> r.total_chugs,
         fastest_chug |-> r.fastest_chug,
         average_chug_time_seconds |->
             IF r.total_chugs > 0
             THEN Some(Rat(r.total_chug_time, r.total_chugs))
             ELSE stat.average_chug_time_seconds]

\* The early returns without the test of game.dnf
Counts_DnfUnchecked(g) == g.official /\ ~g.gpdnf

\* Whether update_from_new_game gets past its early returns (and so saves).
Counts(g) == ~(~g.official \/ g.dnf) /\ ~g.gpdnf

\* PlayerStat.update_from_new_game(game): the object afterwards
update_from_new_game(stat, gid, g) ==
    IF Counts(g) THEN FoldGame(stat, gid, g) ELSE stat

\* update_from_new_game over a sequence of game ids
RECURSIVE FoldGames(_, _, _)
FoldGames(stat, tbl, ids) ==
    IF ids = <<>> THEN stat
    ELSE FoldGames(update_from_new_game(stat, Head(ids), tbl[Head(ids)]), tbl,
                   Tail(ids))

\* round(a / b, 1) for a >= 0, b > 0, as an exact fraction: the nearest
\* tenth, a tie going to the even tenth (a float tie can fall either way)
RoundTenths(a, b) ==
    LET f == (10 * a) \div b
        r == (10 * a) % b
        tenths == IF 2 * r > b \/ (2 * r = b /\ f % 2 = 1) THEN f + 1 ELSE f
    IN  Rat(tenths, 10)

\* PlayerStat.average_game_sips: optional number
average_game_sips(stat) ==
    IF stat.total_games = 0 THEN None
    ELSE Some(RoundTenths(stat.total_sips, stat.total_games))

\* PlayerStat.average_chug_time: optional duration.  "not x" is true of
\* None and of 0.0.
average_chug_time(stat) ==
    IF \/ IsNone(stat.average_chug_time_seconds)
       \/ Val(stat.average_chug_time_seconds) = <<0, 1>>
    THEN None
    ELSE stat.average_chug_time_seconds

\* PlayerStat.season
SeasonOf(season_number) ==
    IF season_number = 0 THEN all_time_season ELSE NumberedSeason(season_number)

\* The gameplayers queryset of recalculate: the tracked user's GamePlayer
\* rows whose game passes filter_season(key="game") and
\* .filter(game__official=True, game__dnf=False)
RecalcRows(tbl, season_number) ==
    {g \in filter_season([x \in DOMAIN tbl |-> tbl[x].end], SeasonOf(season_number),
                         FALSE) :
        tbl[g].official /\ ~tbl[g].dnf}

\* The order the queryset is iterated in: GamePlayer.Meta.ordering is
\* ("position",); rows with equal position come as the database has them.
RecalcOrder(tbl, order, season_number) ==
    LET S == RecalcRows(tbl, season_number)
    IN  CHOOSE s \in Orderings(S) :
            \A i, j \in DOMAIN s :
                i < j => \/ tbl[s[i]].pos < tbl[s[j]].pos
                         \/ /\ tbl[s[i]].pos = tbl[s[j]].pos
                            /\ IndexOf(order, s[i]) < IndexOf(order, s[j])

\* recalculate without its reset loop
ResetFields_None(stat) == stat

\* The reset loop of recalculate over self._meta.fields: every field with
\* a default gets it, every nullable field None
ResetFields(stat) == NewStat

\* PlayerStat.recalculate(): the object afterwards
recalculate(stat, tbl, order, season_number) ==
    FoldGames(ResetFields(stat), tbl, RecalcOrder(tbl, order, season_number))

\* ------------------------------------------------------ processes of Spec
Workers == 1 .. NumWorkers
SeasonKeys == 0 .. 2
IdleWorker == [pc |-> "idle", game |-> 0, obj |-> None, todo |-> <<>>, mem |-> NewStat]
IdleRecalc == [pc |-> "idle", key |-> 0, mem |-> NewStat, queue |-> <<>>,
               order |-> <<>>, pre |-> None, disturbed |-> FALSE]

\* ------------------------------------------------- process of SpecLife
\* mark_dnf_games between runs: queue holds the Game objects the query
\* returned that the loop has yet to visit, as pairs <<id, object>>
IdleTask == [pc |-> "idle", queue |-> <<>>]
NoLife == [completed |-> {}, mark |-> None]

\* No GamePlayerStat row
NoSamples == [p \in 1 .. MaxPlayers |-> 0]

\* ===================================================== SpecSeason: inputs
RowIds == {1}
FirstTick == start_datetime(0)            \* half a year before season 1
LastTick == end_datetime(MaxSeason)
DateDomain == FirstTick .. LastTick
SeasonObjects == {all_time_season} \cup {NumberedSeason(n) : n \in 1 .. MaxSeason}
NoCall == [op |-> "none"]
NoOp == [op |-> "none", game |-> 0, prevOp |-> "none"]

InitSeason ==
    /\ today \in {start_datetime(n) : n \in 1 .. MaxSeason}
    /\ allTimeEnd = end_datetime(season_from_date(today))
    /\ rows = [r \in RowIds |-> None]
    /\ call = NoCall
    /\ games = <<>>
    /\ dbOrder = <<>>
    /\ psSeason = 0
    /\ ps = NewStat
    /\ applied = <<>>
    /\ prev = NewStat
    /\ last = NoOp
    /\ stored = [k \in SeasonKeys |-> None]
    /\ triggered = {}
    /\ folded = {}
    /\ wk = [w \in Workers |-> IdleWorker]
    /\ rc = IdleRecalc
    /\ gameplayers = {}
    /\ clock = 0
    /\ task = IdleTask
    /\ lifelog = NoLife
    /\ samples = NoSamples

\* The calendar moves on to the next month; the process keeps running.
AdvanceClock(limit) ==
    /\ today + TicksPerMonth <= limit
    /\ today' = today + TicksPerMonth
    /\ call' = NoCall
    /\ UNCHANGED <<allTimeEnd, rows, games, dbOrder, gameplayers, lifeVars,
                   foldVars, sysVars, samples>>

\* game.end_datetime = timezone.now(); game.save()
CompleteRow(r) ==
    /\ IsNone(rows[r])
    /\ \E k \in 0 .. TicksPerMonth - 1 :
          rows' = [rows EXCEPT ![r] = Some(today + k)]
    /\ call' = NoCall
    /\ UNCHANGED <<today, allTimeEnd, games, dbOrder, gameplayers, lifeVars,
                   foldVars, sysVars, samples>>

\* One call is looked at at a time: the result is dropped when the clock
\* or a row changes.
CallFilterSeason(s, live) ==
    /\ call = NoCall
    /\ call' = [op |-> "filter_season", season |-> s, live |-> live,
                kept |-> filter_season(rows, s, live)]
    /\ UNCHANGED <<today, allTimeEnd, rows, games, dbOrder, gameplayers,
                   lifeVars, foldVars, sysVars, samples>>

CallSeasonFromDate(d) ==
    /\ call = NoCall
    /\ call' = [op |-> "season_from_date", date |-> d,
                number |-> season_from_date(d)]
    /\ UNCHANGED <<today, allTimeEnd, rows, games, dbOrder, gameplayers,
                   lifeVars, foldVars, sysVars, samples>>

NextSeason ==
    \/ AdvanceClock(LastTick)
    \/ \E r \in RowIds : CompleteRow(r)
    \/ \E s \in SeasonObjects, live \in BOOLEAN : CallFilterSeason(s, live)
    \/ \E d \in DateDomain : CallSeasonFromDate(d)

SpecSeason == InitSeason /\ [][NextSeason]_vars

\* ======================================================= SpecFold: inputs
\* Cards of the games the histories are drawn from.  A card drawn by the
\* tracked user is one whose index i has i mod n = pos.
Card(value, chug, drawn) == [value |-> value, chug |-> chug, drawn |-> drawn]

CardsA(t) == <<Card(14, Some(5), t), Card(3, None, t), Card(2, None, t), Card(4, None, t)>>
CardsB(t) == <<Card(3, None, t), Card(14, Some(5), t), Card(4, None, t), Card(2, None, t)>>
CardsC(t) == <<Card(2, None, t), Card(5, None, t), Card(3, None, t), Card(6, None, t)>>
CardsD(t) == <<Card(14, Some(3), t), Card(7, None, t)>>
CardsZ(t) == <<Card(14, Some(0), t), Card(2, None, t)>>

GameRow(official, dnf, start, end, n, pos, gpdnf, cards) ==
    [official |-> official, dnf |-> dnf, start |-> start, end |-> end, n |-> n,
     pos |-> pos, gpdnf |-> gpdnf, cards |-> cards]

GameKinds ==
    {"A0", "B1", "legacy", "unofficial", "dnf", "dnf_ended", "live", "quit", "late",
     "zero"}

\* The game of kind k created as the id-th game: it starts at tick id - 1
\* and, if it is completed, ends two ticks later, so that games complete in
\* the order of their ids; a "late" game ends in season 2, and the chug of
\* a "zero" game is recorded with 0 milliseconds.
GameOfKind(k, id) ==
    LET st == Some(id - 1)
        en == Some(id + 1)
    IN  CASE k = "A0" -> GameRow(TRUE, FALSE, st, en, 2, 0, FALSE, CardsA(st))
          [] k = "B1" -> GameRow(TRUE, FALSE, st, en, 2, 1, FALSE, CardsB(st))
          [] k = "legacy" -> GameRow(TRUE, FALSE, None, en, 2, 0, FALSE, CardsC(None))
          [] k = "unofficial" -> GameRow(FALSE, FALSE, st, en, 2, 0, FALSE, CardsA(st))
          [] k = "dnf" -> GameRow(TRUE, TRUE, st, None, 2, 0, FALSE, CardsA(st))
          [] k = "dnf_ended" -> GameRow(TRUE, TRUE, st, en, 2, 0, FALSE, CardsA(st))
          [] k = "live" -> GameRow(TRUE, FALSE, st, None, 2, 0, FALSE, CardsC(st))
          [] k = "quit" -> GameRow(TRUE, FALSE, st, en, 2, 1, TRUE, CardsB(st))
          [] k = "late" -> GameRow(TRUE, FALSE, st, Some(start_datetime(2) + id),
                                   1, 0, FALSE, CardsD(st))
          [] k = "zero" -> GameRow(TRUE, FALSE, st, en, 2, 0, FALSE, CardsZ(st))

GameIds == 1 .. MaxGames

InitFold ==
    /\ today = start_datetime(2)
    /\ allTimeEnd = end_datetime(season_from_date(today))
    /\ rows = <<>>
    /\ call = NoCall
    /\ \E kinds \in [GameIds -> GameKinds] :
          games = [id \in GameIds |-> GameOfKind(kinds[id], id)]
    /\ dbOrder \in Orderings(GameIds)
    /\ psSeason \in {0, 1}
    /\ ps = NewStat
    /\ applied = <<>>
    /\ prev = NewStat
    /\ last = NoOp
    /\ stored = [k \in SeasonKeys |-> None]
    /\ triggered = {}
    /\ folded = {}
    /\ wk = [w \in Workers |-> IdleWorker]
    /\ rc = IdleRecalc
    /\ gameplayers = {}
    /\ clock = 0
    /\ task = IdleTask
    /\ lifelog = NoLife
    /\ samples = NoSamples

\* ps.update_from_new_game(game), each game at most once
CallUpdate(id) ==
    /\ id \notin Range(applied)
    /\ prev' = ps
    /\ ps' = update_from_new_game(ps, id, games[id])
    /\ applied' = Append(applied, id)
    /\ last' = [op |-> "update", game |-> id, prevOp |-> last.op]
    /\ UNCHANGED <<today, allTimeEnd, seasonVars, games, dbOrder, gameplayers,
                   lifeVars, psSeason, sysVars, samples>>

\* ps.recalculate()
CallRecalculate ==
    /\ prev' = ps
    /\ ps' = recalculate(ps, games, dbOrder, psSeason)
    /\ applied' = RecalcOrder(games, dbOrder, psSeason)
    /\ last' = [op |-> "recalculate", game |-> 0, prevOp |-> last.op]
    /\ UNCHANGED <<today, allTimeEnd, seasonVars, games, dbOrder, gameplayers,
                   lifeVars, psSeason, sysVars, samples>>

NextFold ==
    \/ \E id \in GameIds : CallUpdate(id)
    \/ CallRecalculate

SpecFold == InitFold /\ [][NextFold]_vars

\* ====================================================== SpecStats: inputs
\* One game of 1 .. MaxSeats players with its first 0 .. MaxCards cards.
\* The cards carry their index field, 0, 1, 2, ... without gaps, and either
\* all or none of them carry a draw time; card k is drawn at DrawTick(k), so
\* that the turns take 1, 2, 3, ... ticks when the game starts at tick 0.
DrawTick(k) == ((k + 1) * (k + 2)) \div 2

StatCard(index, value, stamped) ==
    [index |-> index, value |-> value, chug |-> None,
     drawn |-> IF stamped THEN Some(DrawTick(index)) ELSE None]

StatGames ==
    {[official |-> TRUE, dnf |-> dnf, start |-> st,
      end |-> IF ended THEN Some(DrawTick(MaxCards) + 1) ELSE None,
      n |-> n, pos |-> 0, gpdnf |-> FALSE, sips_per_beer |-> spb,
      cards |-> [k \in 1 .. len |-> StatCard(k - 1, values[k], stamped)]] :
        dnf \in BOOLEAN, st \in {None, Some(0)}, ended \in BOOLEAN,
        n \in 1 .. MaxSeats, spb \in {STANDARD_SIPS_PER_BEER, 3},
        stamped \in BOOLEAN, len \in 0 .. MaxCards,
        values \in [1 .. MaxCards -> {2, 14}]}

InitStats ==
    /\ today = start_datetime(1)
    /\ allTimeEnd = end_datetime(season_from_date(today))
    /\ rows = <<>>
    /\ call = NoCall
    /\ \E g \in StatGames : games = <<g>>
    /\ dbOrder = <<1>>
    /\ psSeason = 0
    /\ ps = NewStat
    /\ applied = <<>>
    /\ prev = NewStat
    /\ last = NoOp
    /\ stored = [k \in SeasonKeys |-> None]
    /\ triggered = {}
    /\ folded = {}
    /\ wk = [w \in Workers |-> IdleWorker]
    /\ rc = IdleRecalc
    /\ gameplayers = {}
    /\ clock = 0
    /\ task = IdleTask
    /\ lifelog = NoLife
    /\ samples = NoSamples

\* game.get_player_stats()
CallGetPlayerStats(id) ==
    /\ call = NoCall
    /\ call' = [op |-> "get_player_stats", game |-> id,
                stats |-> get_player_stats(games[id])]
    /\ UNCHANGED <<today, allTimeEnd, rows, games, dbOrder, gameplayers,
                   lifeVars, foldVars, sysVars, samples>>

\* update_from_new_game(game) on the empty record of the user at a seat
CallUpdateFromNewGame(id, seat) ==
    /\ call = NoCall
    /\ seat < games[id].n
    /\ call' = [op |-> "update_from_new_game", game |-> id, seat |-> seat,
                stat |-> update_from_new_game(NewStat, id,
                                              [games[id] EXCEPT !.pos = seat])]
    /\ UNCHANGED <<today, allTimeEnd, rows, games, dbOrder, gameplayers,
                   lifeVars, foldVars, sysVars, samples>>

\* Card.objects.create(game=game, index=<number of cards so far>, ...)
CallCardSave(id) ==
    /\ call = NoCall
    /\ call' = [op |-> "Card.save", game |-> id, index |-> Len(games[id].cards),
                outcome |-> Card_save(games[id], Len(games[id].cards))]
    /\ UNCHANGED <<today, allTimeEnd, rows, games, dbOrder, gameplayers,
                   lifeVars, foldVars, sysVars, samples>>

NextStats ==
    \/ CallGetPlayerStats(1)
    \/ \E seat \in 0 .. MaxSeats - 1 : CallUpdateFromNewGame(1, seat)
    \/ CallCardSave(1)

SpecStats == InitStats /\ [][NextStats]_vars

\* ======================================================= SpecDeck: inputs
PlayerCounts == 1 .. MaxPlayers
Seeds == 0 .. MaxSeed

InitDeck ==
    /\ today = start_datetime(1)
    /\ allTimeEnd = end_datetime(season_from_date(today))
    /\ rows = <<>>
    /\ call = NoCall
    /\ games = <<>>
    /\ dbOrder = <<>>
    /\ psSeason = 0
    /\ ps = NewStat
    /\ applied = <<>>
    /\ prev = NewStat
    /\ last = NoOp
    /\ stored = [k \in SeasonKeys |-> None]
    /\ triggered = {}
    /\ folded = {}
    /\ wk = [w \in Workers |-> IdleWorker]
    /\ rc = IdleRecalc
    /\ gameplayers = {}
    /\ clock = 0
    /\ task = IdleTask
    /\ lifelog = NoLife
    /\ samples = NoSamples

\* Card.get_shuffled_deck(player_count, seed) for a game of player_count
\* players, and that game's get_total_card_count()
CallGetShuffledDeck(player_count, seed) ==
    /\ call' = [op |-> "get_shuffled_deck", player_count |-> player_count,
                seed |-> seed, deck |-> get_shuffled_deck(player_count, seed),
                total_card_count |-> get_total_card_count([n |-> player_count])]
    /\ UNCHANGED <<today, allTimeEnd, rows, games, dbOrder, gameplayers,
                   lifeVars, foldVars, sysVars, samples>>

NextDeck ==
    \E player_count \in PlayerCounts, seed \in Seeds :
        CallGetShuffledDeck(player_count, seed)

SpecDeck == InitDeck /\ [][NextDeck]_vars

\* ===================================================== SpecRoster: inputs
Users == 1 .. 2
Positions == 0 .. 1

InitRoster ==
    /\ today = start_datetime(1)
    /\ allTimeEnd = end_datetime(season_from_date(today))
    /\ rows = <<>>
    /\ call = NoCall
    /\ games = <<>>
    /\ dbOrder = <<>>
    /\ psSeason = 0
    /\ ps = NewStat
    /\ applied = <<>>
    /\ prev = NewStat
    /\ last = NoOp
    /\ stored = [k \in SeasonKeys |-> None]
    /\ triggered = {}
    /\ folded = {}
    /\ wk = [w \in Workers |-> IdleWorker]
    /\ rc = IdleRecalc
    /\ gameplayers = {}
    /\ clock = 0
    /\ task = IdleTask
    /\ lifelog = NoLife
    /\ samples = NoSamples

\* GamePlayer.objects.create(game=game, user=user, position=position); the
\* database raises IntegrityError when the constraint is broken
CreateGamePlayer(game, user, position) ==
    LET row == [game |-> game, user |-> user, position |-> position]
    IN  /\ UniqueTogether(gameplayers, row)
        /\ gameplayers' = gameplayers \cup {row}
        /\ call' = NoCall
        /\ UNCHANGED <<today, allTimeEnd, rows, games, dbOrder, lifeVars,
                       foldVars, sysVars, samples>>

\* game.gameplayer_set.get(user=user)
CallGet(game, user) ==
    /\ call = NoCall
    /\ call' = [op |-> "gameplayer_set.get", game |-> game, user |-> user,
                outcome |-> gameplayer_set_get(gameplayers, game, user)]
    /\ UNCHANGED <<today, allTimeEnd, rows, games, dbOrder, gameplayers,
                   lifeVars, foldVars, sysVars, samples>>

NextRoster ==
    \/ \E game \in GameIds, user \in Users, position \in Positions :
          CreateGamePlayer(game, user, position)
    \/ \E game \in GameIds, user \in Users : CallGet(game, user)

SpecRoster == InitRoster /\ [][NextRoster]_vars

\* ======================================================= SpecLife: inputs
\* One game, started at hour 0, that takes cards while it is live, is
\* completed by the step that sets end_datetime, and is visited by the
\* periodic mark_dnf_games.  Times are in hours here.
InitLife ==
    /\ today = start_datetime(1)
    /\ allTimeEnd = end_datetime(season_from_date(today))
    /\ rows = <<>>
    /\ call = NoCall
    /\ games = <<GameRow(TRUE, FALSE, Some(0), None, 2, 0, FALSE, <<>>)>>
    /\ dbOrder = <<1>>
    /\ psSeason = 0
    /\ ps = NewStat
    /\ applied = <<>>
    /\ prev = NewStat
    /\ last = NoOp
    /\ stored = [k \in SeasonKeys |-> None]
    /\ triggered = {}
    /\ folded = {}
    /\ wk = [w \in Workers |-> IdleWorker]
    /\ rc = IdleRecalc
    /\ gameplayers = {}
    /\ clock = 0
    /\ task = IdleTask
    /\ lifelog = NoLife
    /\ samples = NoSamples

\* Time passes: an hour, or an hour less than the threshold
HoursPass(h) ==
    /\ clock + h <= MaxClock
    /\ clock' = clock + h
    /\ UNCHANGED <<today, allTimeEnd, seasonVars, games, dbOrder, gameplayers,
                   task, lifelog, foldVars, sysVars, samples>>

\* A card of a live game is stored with drawn_datetime = timezone.now()
DrawCard(id) ==
    /\ is_live(games[id])
    /\ Len(games[id].cards) < MaxCards
    /\ games' = [games EXCEPT ![id].cards = Append(@, Card(2, None, Some(clock)))]
    /\ UNCHANGED <<today, allTimeEnd, seasonVars, dbOrder, gameplayers,
                   lifeVars, foldVars, sysVars, samples>>

\* The completion step on a live game:
\* game.end_datetime = timezone.now(); game.save()
CompleteLive(id) ==
    /\ is_live(games[id])
    /\ games' = [games EXCEPT ![id].end = Some(clock)]
    /\ lifelog' = [lifelog EXCEPT !.completed = @ \cup {id}]
    /\ UNCHANGED <<today, allTimeEnd, seasonVars, dbOrder, gameplayers, clock,
                   task, foldVars, sysVars, samples>>

\* The rest of the loop of mark_dnf_games after the game at the head
TaskAfterHead == IF Len(task.queue) > 1
                 THEN [pc |-> "loop", queue |-> Tail(task.queue)]
                 ELSE IdleTask

\* mark_dnf_games starts: the query
\* Game.objects.filter(end_datetime__isnull=True, dnf=False) is evaluated
\* and its rows become Game objects
TaskQuery ==
    /\ task.pc = "idle"
    /\ LET ids == SelectSeq([i \in DOMAIN games |-> i],
                            LAMBDA i : IsNone(games[i].end) /\ ~games[i].dnf)
       IN  /\ ids # <<>>
           /\ task' = [pc |-> "loop",
                       queue |-> [k \in DOMAIN ids |-> <<ids[k], games[ids[k]]>>]]
    /\ UNCHANGED <<today, allTimeEnd, seasonVars, games, dbOrder, gameplayers,
                   clock, lifelog, foldVars, sysVars, samples>>

\* The test of the loop body on the next object: get_last_activity_time
\* reads end_datetime and start_datetime of the object and the cards from
\* the database
TaskCheck ==
    /\ task.pc = "loop"
    /\ LET id == Head(task.queue)[1]
           obj == [Head(task.queue)[2] EXCEPT !.cards = games[id].cards]
       IN  task' = IF clock - Val(get_last_activity_time(obj)) >= DNF_THRESHOLD
                   THEN [task EXCEPT !.pc = "save"]
                   ELSE TaskAfterHead
    /\ UNCHANGED <<today, allTimeEnd, seasonVars, games, dbOrder, gameplayers,
                   clock, lifelog, foldVars, sysVars, samples>>

\* game.dnf = True; game.save(): every field of the object is written
TaskSave ==
    /\ task.pc = "save"
    /\ LET id == Head(task.queue)[1]
           obj == Head(task.queue)[2]
       IN  /\ games' = [games EXCEPT ![id] =
                           [obj EXCEPT !.dnf = TRUE, !.cards = games[id].cards]]
           /\ lifelog' = [lifelog EXCEPT !.mark =
                             Some([game |-> id, live |-> is_live(games[id]),
                                   age |-> clock - Val(get_last_activity_time(games[id]))])]
    /\ task' = TaskAfterHead
    /\ UNCHANGED <<today, allTimeEnd, seasonVars, dbOrder, gameplayers, clock,
                   foldVars, sysVars, samples>>

NextLife ==
    \/ \E h \in {1, DNF_THRESHOLD - 1} : HoursPass(h)
    \/ \E id \in {1} : DrawCard(id)
    \/ \E id \in {1} : CompleteLive(id)
    \/ TaskQuery
    \/ TaskCheck
    \/ TaskSave

SpecLife == InitLife /\ [][NextLife]_vars

\* ================================================================== Spec
\* Games are created live, are completed while the clock runs from the last
\* month of season 1 into season 2, and each completion invokes
\* update_on_game_finished in some worker process; a recalculation of one
\* record runs beside them.  Every database access is a step of its own.
\* Of the PlayerStat rows, those of one user are followed (the rows of the
\* other players of a game have other keys and are written independently).
LiveKinds == {"A0", "B1", "unofficial"}

LiveGameOfKind(k, id) == [GameOfKind(k, id) EXCEPT !.end = None]

Init ==
    /\ today = start_datetime(2) - TicksPerMonth
    /\ allTimeEnd = end_datetime(season_from_date(today))
    /\ rows = <<>>
    /\ call = NoCall
    /\ \E kinds \in [GameIds -> LiveKinds] :
          games = [id \in GameIds |-> LiveGameOfKind(kinds[id], id)]
    /\ dbOrder \in Orderings(GameIds)
    /\ psSeason = 0
    /\ ps = NewStat
    /\ applied = <<>>
    /\ prev = NewStat
    /\ last = NoOp
    /\ stored = [k \in SeasonKeys |-> None]
    /\ triggered = {}
    /\ folded = {}
    /\ wk = [w \in Workers |-> IdleWorker]
    /\ rc = IdleRecalc
    /\ gameplayers = {}
    /\ clock = 0
    /\ task = IdleTask
    /\ lifelog = NoLife
    /\ samples = NoSamples

\* game.end_datetime = timezone.now(); game.save(), at the first instant
\* of the month the clock shows
CompleteGame(id) ==
    /\ is_live(games[id])
    /\ games' = [games EXCEPT ![id].end = Some(today)]
    /\ UNCHANGED <<today, allTimeEnd, seasonVars, dbOrder, gameplayers,
                   lifeVars, foldVars, sysVars, samples>>

\* The season numbers update_on_game_finished(game) loops over:
\* [game.get_season(), all_time_season]
finished_seasons(g) == <<Val(get_season(g)), all_time_season.number>>

\* PlayerStat.update_on_game_finished(game) is entered, once per completed
\* game: season = game.get_season(), and the loop over [season,
\* all_time_season] for the tracked user begins.  The worker processes are
\* interchangeable: the call runs in the first idle one.
StartUpdate(w, id) ==
    /\ wk[w].pc = "idle"
    /\ \A v \in Workers : v < w => wk[v].pc # "idle"
    /\ is_completed(games[id])
    /\ id \notin triggered
    /\ triggered' = triggered \cup {id}
    /\ wk' = [wk EXCEPT ![w] =
                 [pc |-> "get", game |-> id, obj |-> Some(games[id]),
                  todo |-> finished_seasons(games[id]),
                  mem |-> NewStat]]
    /\ UNCHANGED <<today, allTimeEnd, seasonVars, games, dbOrder, gameplayers,
                   lifeVars, foldVars, stored, folded, rc, samples>>

\* PlayerStat.objects.get_or_create(user=..., season_number=k): the row,
\* created with the field defaults when there is none
GetOrCreate(tbl, k) ==
    IF IsNone(tbl[k]) THEN [tbl EXCEPT ![k] = Some(NewStat)] ELSE tbl

\* ps, _ = PlayerStat.objects.get_or_create(user=player, season_number=s.number)
WorkerGet(w) ==
    /\ wk[w].pc = "get"
    /\ LET k == Head(wk[w].todo)
       IN  /\ stored' = GetOrCreate(stored, k)
           /\ wk' = [wk EXCEPT ![w].pc = "update", ![w].mem = Val(stored'[k])]
    /\ UNCHANGED <<today, allTimeEnd, seasonVars, games, dbOrder, gameplayers,
                   lifeVars, foldVars, triggered, folded, rc, samples>>

\* self.save() of a PlayerStat object: every field of the row is written
Save(tbl, k, stat) == [tbl EXCEPT ![k] = Some(stat)]

\* ps.update_from_new_game(game): the object is updated in memory and, unless
\* the method returned early, saved
WorkerUpdate(w) ==
    /\ wk[w].pc = "update"
    /\ LET k == Head(wk[w].todo)
           g == Val(wk[w].obj)
           new == update_from_new_game(wk[w].mem, wk[w].game, g)
           rest == Tail(wk[w].todo)
       IN  /\ stored' = IF Counts(g) THEN Save(stored, k, new) ELSE stored
           /\ rc' = IF Counts(g) /\ rc.pc # "idle" /\ rc.key = k
                    THEN [rc EXCEPT !.disturbed = TRUE] ELSE rc
           /\ wk' = [wk EXCEPT ![w] = IF rest = <<>> THEN IdleWorker
                                      ELSE [pc |-> "get", game |-> wk[w].game,
                                            obj |-> wk[w].obj, todo |-> rest,
                                            mem |-> new]]
           /\ folded' = IF rest = <<>> THEN folded \cup {wk[w].game} ELSE folded
    /\ UNCHANGED <<today, allTimeEnd, seasonVars, games, dbOrder, gameplayers,
                   lifeVars, foldVars, triggered, samples>>

\* recalculate_season: ps, _ = get_or_create(user=user, season_number=k)
RecalcGet(k) ==
    /\ rc.pc = "idle"
    /\ stored' = GetOrCreate(stored, k)
    /\ rc' = [rc EXCEPT !.pc = "reset", !.key = k, !.mem = Val(stored'[k]),
                        !.pre = stored'[k]]
    /\ UNCHANGED <<today, allTimeEnd, seasonVars, games, dbOrder, gameplayers,
                   lifeVars, foldVars, triggered, folded, wk, samples>>

\* ps.recalculate() up to its loop: the fields are reset in memory and the
\* gameplayers queryset is evaluated; with no row in it the method returns
RecalcBegin ==
    /\ rc.pc = "reset"
    /\ LET order == RecalcOrder(games, dbOrder, rc.key)
       IN  rc' = [rc EXCEPT !.pc = IF order = <<>> THEN "done" ELSE "replay",
                            !.mem = ResetFields(rc.mem),
                            !.queue = order, !.order = order]
    /\ UNCHANGED <<today, allTimeEnd, seasonVars, games, dbOrder, gameplayers,
                   lifeVars, foldVars, stored, triggered, folded, wk,
                   samples>>

\* One turn of the loop of recalculate: self.update_from_new_game(gp.game)
RecalcStep ==
    /\ rc.pc = "replay"
    /\ LET id == Head(rc.queue)
           new == update_from_new_game(rc.mem, id, games[id])
           rest == Tail(rc.queue)
       IN  /\ stored' = IF Counts(games[id]) THEN Save(stored, rc.key, new)
                        ELSE stored
           /\ rc' = [rc EXCEPT !.pc = IF rest = <<>> THEN "done" ELSE "replay",
                               !.mem = new, !.queue = rest]
    /\ UNCHANGED <<today, allTimeEnd, seasonVars, games, dbOrder, gameplayers,
                   lifeVars, foldVars, triggered, folded, wk, samples>>

\* The recalculation fails or is stopped between two turns of its loop;
\* nothing catches the exception and nothing is rolled back.
RecalcInterrupted ==
    /\ rc.pc = "replay"
    /\ rc' = [rc EXCEPT !.pc = "aborted"]
    /\ UNCHANGED <<today, allTimeEnd, seasonVars, games, dbOrder, gameplayers,
                   lifeVars, foldVars, stored, triggered, folded, wk,
                   samples>>

Next ==
    \/ AdvanceClock(start_datetime(2))
    \/ \E id \in GameIds : CompleteGame(id)
    \/ \E w \in Workers, id \in GameIds : StartUpdate(w, id)
    \/ \E w \in Workers : WorkerGet(w)
    \/ \E w \in Workers : WorkerUpdate(w)
    \/ \E k \in SeasonKeys : RecalcGet(k)
    \/ RecalcBegin
    \/ RecalcStep
    \/ RecalcInterrupted

Spec == Init /\ [][Next]_vars

\* ===================================================== SpecFinish: inputs
\* update_on_game_finished called for one completed game after the other,
\* each call running to its end before the next begins.
FinishKinds == {"A0", "B1", "unofficial", "quit"}

InitFinish ==
    /\ today = start_datetime(2) - TicksPerMonth
    /\ allTimeEnd = end_datetime(season_from_date(today))
    /\ rows = <<>>
    /\ call = NoCall
    /\ \E kinds \in [GameIds -> FinishKinds] :
          games = [id \in GameIds |-> LiveGameOfKind(kinds[id], id)]
    /\ dbOrder = [id \in GameIds |-> id]
    /\ psSeason = 0
    /\ ps = NewStat
    /\ applied = <<>>
    /\ prev = [k \in SeasonKeys |-> None]
    /\ last = NoOp
    /\ stored = [k \in SeasonKeys |-> None]
    /\ triggered = {}
    /\ folded = {}
    /\ wk = [w \in Workers |-> IdleWorker]
    /\ rc = IdleRecalc
    /\ gameplayers = {}
    /\ clock = 0
    /\ task = IdleTask
    /\ lifelog = NoLife
    /\ samples = NoSamples

\* The loop of update_on_game_finished over the season numbers in todo, for
\* the tracked user: get_or_create, then update_from_new_game, which saves
\* unless it returns early
RECURSIVE UpdateSeasons(_, _, _, _)
UpdateSeasons(tbl, id, g, todo) ==
    IF todo = <<>> THEN tbl
    ELSE LET k == Head(todo)
             got == GetOrCreate(tbl, k)
             new == update_from_new_game(Val(got[k]), id, g)
         IN  UpdateSeasons(IF Counts(g) THEN Save(got, k, new) ELSE got,
                           id, g, Tail(todo))

\* PlayerStat.update_on_game_finished(game) on the table tbl
update_on_game_finished_SeasonOnly(tbl, id, g) ==
    UpdateSeasons(tbl, id, g, <<Val(get_season(g))>>)

update_on_game_finished(tbl, id, g) ==
    UpdateSeasons(tbl, id, g, finished_seasons(g))

\* PlayerStat.update_on_game_finished(game), once per completed game; prev
\* keeps the table as it was before the call
CallUpdateOnGameFinished(id) ==
    /\ is_completed(games[id])
    /\ id \notin triggered
    /\ prev' = stored
    /\ stored' = update_on_game_finished(stored, id, games[id])
    /\ triggered' = triggered \cup {id}
    /\ folded' = folded \cup {id}
    /\ last' = [op |-> "update_on_game_finished", game |-> id, prevOp |-> last.op]
    /\ UNCHANGED <<today, allTimeEnd, seasonVars, games, dbOrder, gameplayers,
                   lifeVars, psSeason, ps, applied, wk, rc, samples>>

NextFinish ==
    \/ AdvanceClock(start_datetime(2))
    \/ \E id \in GameIds : CompleteGame(id)
    \/ \E id \in GameIds : CallUpdateOnGameFinished(id)

SpecFinish == InitFinish /\ [][NextFinish]_vars

\* ======================================================== SpecMix: inputs
\* StatsView.combined_distribution runs its loop over range(2, 6 + 1)
TabulatedCounts == 2 .. 6

\* dist_f(player_count)[0](x) at the one x looked at, in whole units
DensityValues == 1 .. 2

RECURSIVE SumWs(_, _)
SumWs(ws, S) ==
    IF S = {} THEN 0
    ELSE LET p == CHOOSE q \in S : TRUE IN ws[p] + SumWs(ws, S \ {p})

\* a / b + c / d
RatAdd(a, b) == Rat(a[1] * b[2] + b[1] * a[2], a[2] * b[2])

RECURSIVE RatSum(_, _)
RatSum(f, S) ==
    IF S = {} THEN <<0, 1>>
    ELSE LET p == CHOOSE q \in S : TRUE IN RatAdd(f[p], RatSum(f, S \ {p}))

\* GamePlayerStat.get_stats_with_player_count(season, player_count).count():
\* the rows of the season that come from games of player_count players
get_stats_with_player_count(tbl, player_count) == tbl[player_count]

\* GamePlayerStat.get_sips_distribution(season, None).exists(), and the same
\* for get_chugs_distribution: the season has a row, of any player count
stats_exists(tbl) == \E p \in DOMAIN tbl : tbl[p] > 0

\* StatsView.combined_distribution(season, dist_f): ws[p] is the weight the
\* loop appends for p, total_ws their sum; building the description
\* evaluates w / total_ws before the function returns, so total_ws = 0
\* raises; otherwise the description carries the weights and the lambda,
\* applied to x, gives value
combined_distribution(tbl, dist_f) ==
    LET ws == [p \in TabulatedCounts |-> get_stats_with_player_count(tbl, p)]
        total_ws == SumWs(ws, TabulatedCounts)
    IN  IF total_ws = 0 THEN [raised |-> "ZeroDivisionError"]
        ELSE [raised |-> "",
              weights |-> [p \in TabulatedCounts |-> Rat(ws[p], total_ws)],
              value |-> RatSum([p \in TabulatedCounts |->
                                   Rat(dist_f[p] * ws[p], total_ws)],
                               TabulatedCounts)]

InitMix ==
    /\ today = start_datetime(1)
    /\ allTimeEnd = end_datetime(season_from_date(today))
    /\ rows = <<>>
    /\ call = NoCall
    /\ games = <<>>
    /\ dbOrder = <<>>
    /\ psSeason = 0
    /\ ps = NewStat
    /\ applied = <<>>
    /\ prev = NewStat
    /\ last = NoOp
    /\ stored = [k \in SeasonKeys |-> None]
    /\ triggered = {}
    /\ folded = {}
    /\ wk = [w \in Workers |-> IdleWorker]
    /\ rc = IdleRecalc
    /\ gameplayers = {}
    /\ clock = 0
    /\ task = IdleTask
    /\ lifelog = NoLife
    /\ samples = NoSamples

\* the games that left rows: a game of player_count players leaves one row
\* per player
SampledGames(tbl) ==
    SumWs([p \in DOMAIN tbl |-> tbl[p] \div p], DOMAIN tbl)

\* A game of player_count players of the season leaves its GamePlayerStat
\* rows
RecordGamePlayerStats(player_count) ==
    /\ call = NoCall
    /\ SampledGames(samples) < MaxSamples
    /\ samples' = [samples EXCEPT ![player_count] = @ + player_count]
    /\ UNCHANGED <<today, allTimeEnd, seasonVars, games, dbOrder, gameplayers,
                   lifeVars, foldVars, sysVars>>

\* StatsView.get_context_data with no player count chosen, for one of the
\* two stat types: stats.exists(), then combined_distribution(season,
\* prob_f) and dist(x)
CallCombinedDistribution(dist_f) ==
    /\ stats_exists(samples)
    /\ call' = [op |-> "combined_distribution", dist_f |-> dist_f,
                result |-> combined_distribution(samples, dist_f)]
    /\ UNCHANGED <<today, allTimeEnd, rows, games, dbOrder, gameplayers,
                   lifeVars, foldVars, sysVars, samples>>

NextMix ==
    \/ \E player_count \in PlayerCounts : RecordGamePlayerStats(player_count)
    \/ \E dist_f \in [TabulatedCounts -> DensityValues] :
           CallCombinedDistribution(dist_f)

SpecMix == InitMix /\ [][NextMix]_vars

\* ================================================================ claims
\* The ids of a set of completed games in completion order
CompletionOrder(S) ==
    CHOOSE s \in Orderings(S) :
        \A i, j \in DOMAIN s : i < j => Val(games[s[i]].end) < Val(games[s[j]].end)

\* The finished, official games that update_on_game_finished hands to the
\* record of season psSeason: those of that season, or all for season 0
History ==
    {id \in GameIds :
        /\ is_completed(games[id])
        /\ games[id].official
        /\ psSeason = 0 \/ get_season(games[id]) = Some(psSeason)}

\* C1: a record built from the empty record by update_from_new_game over
\* the finished, official games of the player in completion order equals
\* the record recalculate() produces over the same history (checked where
\* the database returns rows of equal position in id order, the order most
\* favourable to the claim).
C1_RecalculateEqualsIncremental ==
    (applied = CompletionOrder(History) /\ dbOrder = [id \in GameIds |-> id]) =>
        ps = recalculate(NewStat, games, dbOrder, psSeason)

\* C2: replaying the games folded into the record in any other order gives
\* the same record, best_game, worst_game and fastest_chug included.
C2_OrderIndependent ==
    \A q \in Orderings(Range(applied)) : FoldGames(NewStat, games, q) = ps

\* What one game gives the tracked user, read off its cards: the values and
\* the chugs of the cards whose index i has i mod n = pos
PlayerSips(g) ==
    SumSeq([i \in 1 .. Len(g.cards) |->
               IF (i - 1) % g.n = g.pos THEN g.cards[i].value ELSE 0])

PlayerChugs(g) ==
    SumSeq([i \in 1 .. Len(g.cards) |->
               IF (i - 1) % g.n = g.pos /\ ~IsNone(g.cards[i].chug) THEN 1 ELSE 0])

\* The games whose update_on_game_finished has returned and that count for
\* the record of season k
FoldedInto(k) ==
    {id \in folded :
        /\ Counts(games[id])
        /\ k = all_time_season.number \/ get_season(games[id]) = Some(k)}

\* C3: once the update_on_game_finished calls of the completed games have
\* returned (and no recalculation touched the records), every record counts
\* every one of its games in total_games, total_sips and total_chugs,
\* however the calls were interleaved.
C3_NoLostUpdate ==
    (rc.pc = "idle" /\ \A w \in Workers : wk[w].pc = "idle") =>
        \A k \in SeasonKeys :
            FoldedInto(k) # {} =>
                /\ ~IsNone(stored[k])
                /\ Val(stored[k]).total_games = Cardinality(FoldedInto(k))
                /\ Val(stored[k]).total_sips =
                       SumSeq([id \in GameIds |->
                                  IF id \in FoldedInto(k)
                                  THEN PlayerSips(games[id]) ELSE 0])
                /\ Val(stored[k]).total_chugs =
                       SumSeq([id \in GameIds |->
                                  IF id \in FoldedInto(k)
                                  THEN PlayerChugs(games[id]) ELSE 0])

\* C4: from the start of recalculate() on, also after it was interrupted,
\* the stored record (no other writer having touched it) is the record as
\* it was before or the fully recomputed one.
C4_RecalculateAtomic ==
    (rc.pc \in {"replay", "aborted", "done"} /\ ~rc.disturbed) =>
        \/ stored[rc.key] = rc.pre
        \/ stored[rc.key] = Some(FoldGames(NewStat, games, rc.order))

\* C5: after recalculate() found no qualifying game, the stored record (no
\* other writer having touched it) is the empty record: zero totals and
\* undefined best and worst game, fastest chug and average chug time.
C5_ZeroGamesYieldEmptyRecord ==
    (rc.pc = "done" /\ rc.order = <<>> /\ ~rc.disturbed) =>
        stored[rc.key] = Some(NewStat)

\* C6: update_from_new_game changes the record only for a game that is
\* finished (end_datetime set), official and not DNF for the player.
C6_OnlyFinishedGamesCount ==
    (last.op = "update" /\ ps # prev) =>
        /\ is_completed(games[last.game])
        /\ games[last.game].official
        /\ ~games[last.game].gpdnf

\* A game that is unofficial or marked DNF
Excluded(g) == ~g.official \/ g.dnf

\* C7: an unofficial game or a game marked DNF (with or without an
\* end_datetime) never contributes: update_from_new_game leaves the record
\* as it was, and recalculate gives what it gives without those games.
C7_ExcludedGamesNeverCount ==
    /\ (last.op = "update" /\ Excluded(games[last.game])) => ps = prev
    /\ last.op = "recalculate" =>
          LET kept == {id \in GameIds : ~Excluded(games[id])}
          IN  ps = recalculate(prev, [id \in kept |-> games[id]], dbOrder, psSeason)

\* a DNF game that also has an end_datetime was passed to a record that
\* already counts a game
C7_Witness ==
    /\ last.op = "update"
    /\ games[last.game].dnf
    /\ is_completed(games[last.game])
    /\ games[last.game].official
    /\ prev.total_games > 0

C9_FilterSeason ==
    call.op = "filter_season" =>
        \A r \in RowIds :
            r \in call.kept <=>
                IF ~IsNone(rows[r])
                THEN /\ SeasonStart(call.season) <= Val(rows[r])
                     /\ Val(rows[r]) <= SeasonEnd(call.season)
                ELSE /\ \/ call.season = all_time_season
                        \/ call.season = NumberedSeason(season_from_date(today))
                     /\ call.live

\* a live row kept for the current numbered season
C9_Witness ==
    /\ call.op = "filter_season"
    /\ ~call.season.alltime
    /\ call.live
    /\ \E r \in RowIds : IsNone(rows[r]) /\ r \in call.kept

\* The numbered seasons n >= 1 whose range contains the date d
ContainingSeasons(d) ==
    {n \in 1 .. MaxSeason + 1 : start_datetime(n) <= d /\ d <= end_datetime(n)}

\* A season ends one tick before the next one starts
Adjacent ==
    \A n \in 1 .. MaxSeason : end_datetime(n) + 1 = start_datetime(n + 1)

\* C10 as claimed: every date lies in exactly one numbered season n >= 1,
\* the one season_from_date returns, and consecutive seasons are adjacent.
C10_PartitionAnyDate ==
    call.op = "season_from_date" =>
        /\ ContainingSeasons(call.date) = {call.number}
        /\ Adjacent

\* C10 as amended: every date on or after FIRST_SEASON_START lies in
\* exactly one numbered season n >= 1, the one season_from_date returns,
\* and consecutive seasons are adjacent.
C10_PartitionFromEpoch ==
    (call.op = "season_from_date" /\ call.date >= start_datetime(1)) =>
        /\ ContainingSeasons(call.date) = {call.number}
        /\ Adjacent

\* the last instant of season 2
C10_Witness ==
    /\ call.op = "season_from_date"
    /\ call.number = 2
    /\ call.date = end_datetime(2)

\* C11: at every moment, also after the date has moved across a season
\* boundary in a running process, the all-time season runs from the start
\* of season 1 to the end of the current season and so contains the range
\* of every valid numbered season.
C11_AllTimeCoversValidSeasons ==
    /\ SeasonStart(all_time_season) = start_datetime(1)
    /\ SeasonEnd(all_time_season) = end_datetime(current_season)
    /\ \A n \in 1 .. MaxSeason + 1 :
          is_valid_season_number(n) =>
              /\ SeasonStart(all_time_season) <= SeasonStart(NumberedSeason(n))
              /\ SeasonEnd(NumberedSeason(n)) <= SeasonEnd(all_time_season)

\* The sips on the cards of game g whose index field is congruent to seat s
OwnedSips(g, s) ==
    SumSeq([k \in 1 .. Len(g.cards) |->
               IF g.cards[k].index % g.n = s THEN g.cards[k].value ELSE 0])

\* C12: Card.save, get_player_stats and update_from_new_game all attribute
\* the card with draw index i to seat i mod p: Card.save stores the card
\* with that seat's player as drawn_by, and the sips the other two credit to
\* a seat are the sum of the values of the cards with i mod p = that seat.
C12_RoundRobinOwnership ==
    LET g == games[1]
    IN  /\ call.op = "Card.save" =>
              /\ call.outcome.saved
              /\ call.outcome.drawn_by = Some(call.index % g.n)
        /\ call.op = "get_player_stats" =>
              \A s \in 0 .. g.n - 1 : call.stats[s].total_sips = OwnedSips(g, s)
        /\ call.op = "update_from_new_game" =>
              (~g.dnf => call.stat.total_sips = OwnedSips(g, call.seat))

\* C12 without Card.save: the two computations agree on the owner
C12_StatsAgree ==
    LET g == games[1]
    IN  /\ call.op = "get_player_stats" =>
              \A s \in 0 .. g.n - 1 : call.stats[s].total_sips = OwnedSips(g, s)
        /\ call.op = "update_from_new_game" =>
              (~g.dnf => call.stat.total_sips = OwnedSips(g, call.seat))

\* The deck has 13p distinct cards, every value 2..14 once in each of the
\* first p suits, and as many cards as get_total_card_count says
DeckIntegrity ==
    LET p == call.player_count
        deck == call.deck
    IN  /\ Len(deck) = 13 * p
        /\ \A i, j \in DOMAIN deck : i # j => deck[i] # deck[j]
        /\ \A v \in 2 .. 14, k \in 1 .. p :
              Cardinality({i \in DOMAIN deck : deck[i] = <<v, CardSUITS[k]>>}) = 1
        /\ Len(deck) = call.total_card_count

\* C13 as claimed: for every player count p, get_shuffled_deck(p, seed) has
\* exactly 13p distinct (value, suit) cards, every value 2..14 once in each
\* of the first p suits, and its size is get_total_card_count().
C13_DeckAnyPlayerCount ==
    call.op = "get_shuffled_deck" => DeckIntegrity

\* C13 as amended: for every player count p up to the number of suits of
\* Card.SUITS (6), get_shuffled_deck(p, seed) has exactly 13p distinct
\* (value, suit) cards, every value 2..14 once in each of the first p
\* suits, and its size is get_total_card_count().
C13_DeckUpToSixPlayers ==
    (call.op = "get_shuffled_deck" /\ call.player_count <= 6) => DeckIntegrity

\* a deck for six players whose order the shuffle changed
C13_Witness ==
    /\ call.op = "get_shuffled_deck"
    /\ call.player_count = 6
    /\ call.deck # get_ordered_cards_for_players(6)
    /\ Len(call.deck) = 78

\* The cards a seat drew, and the turns whose duration is credited to it
DrawnBy(g, s) == Cardinality({k \in DOMAIN g.cards : (k - 1) % g.n = s})
TurnsOf(g, s) ==
    Cardinality({k \in DOMAIN get_turn_durations(g) : (k - 1) % g.n = s})

\* The sips time_per_sip divides by: the last card drawn does not count for
\* its seat while the game is not completed
CountedSips(g, s) ==
    LET len == Len(g.cards)
    IN  IF len > 0 /\ (len - 1) % g.n = s /\ ~is_completed(g)
        THEN OwnedSips(g, s) - g.cards[len].value
        ELSE OwnedSips(g, s)

\* C14 for get_player_stats: sips_per_turn, time_per_turn and time_per_sip
\* are None when their denominator (cards drawn, turns completed, sips
\* counted) is 0 or an input (the total time, the game start) is undefined,
\* and are defined otherwise.
C14_GameMetrics ==
    call.op = "get_player_stats" =>
        LET g == games[1]
        IN  \A s \in 0 .. g.n - 1 :
                LET r == call.stats[s]
                IN  /\ IsNone(r.sips_per_turn) <=> DrawnBy(g, s) = 0
                    /\ IsNone(r.time_per_turn) <=>
                          (IsNone(r.total_time) \/ TurnsOf(g, s) = 0)
                    /\ IsNone(r.time_per_sip) <=>
                          \/ IsNone(r.total_time)
                          \/ IsNone(g.start)
                          \/ CountedSips(g, s) = 0

\* C14: a derived metric is None when its denominator is zero and is
\* defined when its denominator is not zero and its inputs are defined:
\* average_game_sips against total_games, average_chug_time against
\* total_chugs, and the three quotients of get_player_stats.
C14_UndefinedIffZeroDenominator ==
    /\ IsNone(average_game_sips(ps)) <=> ps.total_games = 0
    /\ IsNone(average_chug_time(ps)) <=> ps.total_chugs = 0
    /\ C14_GameMetrics

\* No card of the game carries a draw time
Untimed(g) == \A k \in DOMAIN g.cards : IsNone(g.cards[k].drawn)

C16_SeatAndPlayerUnique ==
    /\ \A r1, r2 \in gameplayers :
          (r1 # r2 /\ r1.game = r2.game) =>
              (r1.position # r2.position /\ r1.user # r2.user)
    /\ call.op = "gameplayer_set.get" =>
          ((\E r \in gameplayers : r.game = call.game /\ r.user = call.user)
              => call.outcome.raised = "")

\* C17: whatever the interleaving of card draws, the completion step and
\* mark_dnf_games, no game has dnf set together with end_datetime;
\* mark_dnf_games sets dnf only on a game that is live and whose last
\* activity is at least 12 hours old; and a completion is never undone or
\* overwritten.
C17_DnfExcludesCompletion ==
    /\ \A id \in DOMAIN games : ~(games[id].dnf /\ ~IsNone(games[id].end))
    /\ ~IsNone(lifelog.mark) =>
          (Val(lifelog.mark).live /\ Val(lifelog.mark).age >= 12)
    /\ \A id \in lifelog.completed :
          ~IsNone(games[id].end) /\ ~games[id].dnf

\* The record read by get_or_create: the stored one, or a new one
Base(tbl, k) == IF IsNone(tbl[k]) THEN NewStat ELSE Val(tbl[k])

\* C18: update_on_game_finished(game) applies the game exactly once to
\* exactly two records of a participating player, the one of the season
\* that contains the completion time and the all-time one (season 0),
\* creating them if absent; every other record is left as it was, absent
\* ones stay absent, and no record receives the game twice.
C18_TwoRecordsOnce ==
    last.op = "update_on_game_finished" =>
        LET id == last.game
            g == games[id]
            keys == {season_from_date(Val(g.end)), 0}
            counted == g.official /\ ~g.dnf /\ ~g.gpdnf
        IN  /\ Cardinality(keys) = 2
            /\ \A k \in SeasonKeys \ keys : stored[k] = prev[k]
            /\ \A k \in keys :
                  /\ ~IsNone(stored[k])
                  /\ IF counted
                     THEN /\ Val(stored[k]).total_games = Base(prev, k).total_games + 1
                          /\ Val(stored[k]).total_sips =
                                Base(prev, k).total_sips + PlayerSips(g)
                          /\ Val(stored[k]).total_chugs =
                                Base(prev, k).total_chugs + PlayerChugs(g)
                     ELSE Val(stored[k]) = Base(prev, k)

\* the second call, for a counted game completed in season 2, after a game
\* of season 1: the season-2 record is created, the all-time one grows
C18_Witness ==
    /\ last.op = "update_on_game_finished"
    /\ last.prevOp = "update_on_game_finished"
    /\ season_from_date(Val(games[last.game].end)) = 2
    /\ IsNone(prev[2])
    /\ ~IsNone(stored[1])
    /\ Val(stored[2]).total_games = 1
    /\ Val(stored[0]).total_games = 2

\* The chugs of the tracked user in the games folded into ps that count,
\* as pairs <<game, card index>>, and the duration of one
CountedChugs ==
    UNION {{<<id, i - 1>> :
               i \in {j \in DOMAIN games[id].cards :
                         /\ (j - 1) % games[id].n = games[id].pos
                         /\ ~IsNone(games[id].cards[j].chug)}} :
           id \in {x \in Range(applied) : Counts(games[x])}}

ChugDuration(c) == Val(games[c[1]].cards[c[2] + 1].chug)

RECURSIVE SumOver(_)
SumOver(S) ==
    IF S = {} THEN 0
    ELSE LET c == CHOOSE x \in S : TRUE
         IN  ChugDuration(c) + SumOver(S \ {c})

\* C19: after any sequence of update_from_new_game calls the average chug
\* time times total_chugs is the sum of the durations of the chugs counted
\* so far, the average is undefined iff total_chugs = 0, and fastest_chug is
\* a counted chug of minimum duration.
C19_ChugAverageAndFastest ==
    LET n == Cardinality(CountedChugs)
        avg == ps.average_chug_time_seconds
    IN  /\ ps.total_chugs = n
        /\ IsNone(avg) <=> ps.total_chugs = 0
        /\ ~IsNone(avg) =>
              Val(avg)[1] * ps.total_chugs = SumOver(CountedChugs) * Val(avg)[2]
        /\ IsNone(ps.fastest_chug) <=> n = 0
        /\ ~IsNone(ps.fastest_chug) =>
              LET f == Val(ps.fastest_chug)
              IN  /\ <<f.game, f.index>> \in CountedChugs
                  /\ f.duration = ChugDuration(<<f.game, f.index>>)
                  /\ \A c \in CountedChugs : f.duration <= ChugDuration(c)

\* two games folded in whose chugs took 5 and 0 milliseconds: the average
\* is 5/2 and the fastest chug is the later, shorter one
C19_Witness ==
    /\ Len(applied) = 2
    /\ ps.total_chugs = 2
    /\ ps.average_chug_time_seconds = Some(<<5, 2>>)
    /\ Val(ps.fastest_chug).duration = 0
    /\ Val(ps.fastest_chug).game = applied[2]

\* Every card of the game carries a draw time, and there is a card
Timed(g) == Len(g.cards) > 0 /\ \A k \in DOMAIN g.cards : ~IsNone(g.cards[k].drawn)

\* The time between the draw of the card at position k (index k - 1) and
\* the draw before it, or the game start for the first card; a first card
\* of a game without start time has no duration
TurnDuration(g, k) ==
    IF k > 1 THEN Val(g.cards[k].drawn) - Val(g.cards[k - 1].drawn)
    ELSE IF IsNone(g.start) THEN 0
    ELSE Val(g.cards[1].drawn) - Val(g.start)

SeatTime(g, s) ==
    SumSeq([k \in 1 .. Len(g.cards) |->
               IF g.cards[k].index % g.n = s THEN TurnDuration(g, k) ELSE 0])

\* C20: for a game whose cards carry draw timestamps, the duration of the
\* card at draw index k, drawn(k) - drawn(k - 1) or drawn(0) - start, is
\* added to total_time of seat k mod p, whether or not the game has a start
\* time.
C20_DurationToDrawingSeat ==
    (call.op = "get_player_stats" /\ Timed(games[1])) =>
        \A s \in 0 .. games[1].n - 1 :
            call.stats[s].total_time = Some(SeatTime(games[1], s))

\* C20 for games that have a start time
C20_WithStartTime ==
    (call.op = "get_player_stats" /\ Timed(games[1]) /\ ~IsNone(games[1].start)) =>
        \A s \in 0 .. games[1].n - 1 :
            call.stats[s].total_time = Some(SeatTime(games[1], s))

\* The seat that drew the most recent card of a game with cards
LastSeat(g) == g.cards[Len(g.cards)].index % g.n

\* total_time / sips as get_player_stats reports a quotient: None when the
\* game has no start time, the total time is None or sips is 0
TimePerSip(g, total_time, sips) ==
    IF IsNone(g.start) \/ IsNone(total_time) \/ sips = 0 THEN None
    ELSE Some(Rat(Val(total_time), sips))

\* C21: time_per_sip of seat s is total_time(s) / (total_sips(s) - value of
\* the last drawn card) exactly when the game is live (not finished and not
\* DNF) and seat s drew the most recent card; for every other seat, and for
\* all seats of a game that is no longer live, it is total_time(s) /
\* total_sips(s).
C21_LastCardExcludedWhileLive ==
    call.op = "get_player_stats" =>
        LET g == games[1]
        IN  \A s \in 0 .. g.n - 1 :
                LET r == call.stats[s]
                    open == /\ is_live(g)
                            /\ Len(g.cards) > 0
                            /\ LastSeat(g) = s
                IN  r.time_per_sip =
                        IF open
                        THEN TimePerSip(g, r.total_time,
                                        OwnedSips(g, s) - g.cards[Len(g.cards)].value)
                        ELSE TimePerSip(g, r.total_time, OwnedSips(g, s))

\* C21 with "not completed" in the place of "live": the last card is left
\* out for the seat that drew it as long as end_datetime is not set
C21_LastCardExcludedWhileNotCompleted ==
    call.op = "get_player_stats" =>
        LET g == games[1]
        IN  \A s \in 0 .. g.n - 1 :
                LET r == call.stats[s]
                    open == /\ ~is_completed(g)
                            /\ Len(g.cards) > 0
                            /\ LastSeat(g) = s
                IN  r.time_per_sip =
                        IF open
                        THEN TimePerSip(g, r.total_time,
                                        OwnedSips(g, s) - g.cards[Len(g.cards)].value)
                        ELSE TimePerSip(g, r.total_time, OwnedSips(g, s))

\* the mixture of the claim at the one x, over the player counts the code
\* tabulates: sum of dist_f(p)(x) * w_p / W
Mixture(tbl, dist_f) ==
    Rat(SumWs([p \in TabulatedCounts |-> dist_f[p] * tbl[p]], TabulatedCounts),
        SumWs(tbl, TabulatedCounts))

MixtureHolds ==
    /\ call.result.raised = ""
    /\ \A p \in TabulatedCounts : call.result.weights[p][1] >= 0
    /\ RatSum(call.result.weights, TabulatedCounts) = <<1, 1>>
    /\ call.result.value = Mixture(samples, call.dist_f)

\* C22: whenever combined_distribution is invoked for a non-empty sample,
\* it does not divide by zero, its weights are non-negative and sum to 1,
\* and its function gives the mixture sum over p of dist_f(p)(x) * w_p / W.
C22_MixtureOnNonEmptySample ==
    (call.op = "combined_distribution" /\ stats_exists(samples))
        => MixtureHolds

\* C22 for a sample with a row of a player count the loop tabulates: the
\* mixture, the weights and the absence of a division by zero as claimed.
C22_MixtureOnTabulatedSample ==
    (call.op = "combined_distribution"
        /\ SumWs(samples, TabulatedCounts) > 0)
        => MixtureHolds


====
